---- MODULE Spec2Model ----
(***************************************************************************)
(* Hazard-report lifecycle of the relational backend                        *)
(* (src/Backend(Final)/src/config/database.js, the report routes, and       *)
(* src/unnamed/part_005, the Sequelize Report model) and the user           *)
(* administration routes (src/backend/routes/users.js).                     *)
(*                                                                          *)
(* Conventions.  An optional value is a sequence: << >> is undefined/null,  *)
(* <<v>> is the value v.  A text is a record [present, pad, len]: `pad' is  *)
(* the number of leading/trailing whitespace characters, `len' the number   *)
(* of characters that remain after String.prototype.trim().  Dates are      *)
(* days on the clock `now'.                                                 *)
(***************************************************************************)
EXTENDS Integers, Sequences, FiniteSets, TLC

VARIABLES
    reports,    \* the reports table: report id -> row
    users,      \* the users table: user id -> [role, status, email]
    now,        \* the server clock (new Date() / Date.now())
    nreq,       \* number of requests served so far
    response,   \* the last HTTP response sent: [op, actor, rid, code, message]
    sessions,   \* in-flight requests of the interleaved specification
    transporter,\* the mail transporter of the email service module
    maillog     \* what the email service logged for the last welcome email

vars == <<reports, users, now, nreq, response, sessions, transporter, maillog>>

-----------------------------------------------------------------------------
(* Bounds of the model *)

MaxReports == 1
MaxRequests == 3
MaxNow == 1
MaxOtherKeys == 1
MaxSessions == 2
MaxRecipients == 3

-----------------------------------------------------------------------------
(* Program constants *)

DescriptionMin == 10
DescriptionMax == 2000
ReasonMin == 10
ReasonMax == 1000
RetentionDays == 90
LatMax == 90
LngMax == 180
StatusReasonMin == 10
StatusReasonMax == 500
EmailMax == 255
NameMin == 1
NameMax == 50
PasswordMin == 8
\* the length of `deleted_${Date.now()}_`: 8 + 13 digits + 1
ScramblePrefixLen == 22

HazardTypes ==
    {"flood", "high-waves", "coastal-erosion", "storm-surge", "tsunami",
     "oil-spill", "marine-debris", "red-tide", "infrastructure-damage", "other"}

Severities == {"low", "medium", "high", "critical"}

Urgencies == {"routine", "urgent", "immediate", "emergency"}

StatusEnum == {"pending", "verified", "rejected", "under_review", "resolved"}

VerificationLevels ==
    {"unverified", "community_verified", "expert_verified", "official_verified"}

Visibilities == {"public", "restricted", "private"}

Roles == {"citizen", "verifier", "analyst", "admin"}

UserStatuses == {"active", "inactive", "suspended", "pending"}

-----------------------------------------------------------------------------
(* Optional values, texts, dates *)

None == << >>

Some(v) == <<v>>

Opt(S) == {None} \cup {Some(v) : v \in S}

IsSome(o) == o # None

NoText == [present |-> FALSE, pad |-> 0, len |-> 0]

Text(p, n) == [present |-> TRUE, pad |-> p, len |-> n]

\* String.prototype.trim() as express-validator's .trim() sanitizer applies it:
\* an undefined field becomes the empty string.
trim(t) == Text(0, t.len)

StrLen(t) == t.pad + t.len

\* JavaScript truthiness of a string-or-undefined value
Truthy(t) == t.present /\ StrLen(t) > 0

-----------------------------------------------------------------------------
(* Users of the store.  Roles are those of the User model. *)

Users == {"alice", "victor", "ana", "adam"}

InitialRole ==
    [u \in Users |->
        CASE u = "victor" -> "verifier"
          [] u = "ana"    -> "analyst"
          [] u = "adam"   -> "admin"
          [] OTHER        -> "citizen"]

\* The registered addresses; ana's is the shortest that no longer fits the
\* column once it is prefixed.
InitialEmail ==
    [u \in Users |->
        [name |-> u, upper |-> FALSE, prefix |-> << >>,
         len |-> IF u = "ana" THEN EmailMax - ScramblePrefixLen + 1
                 ELSE ScramblePrefixLen]]

canVerifyReports(u) == users[u].role \in {"verifier", "analyst", "admin"}

\* middleware/authorization requireRole(roles): lets the request through
\* when the authenticated user's role is one of `roles'.
requireRole(roles, u) == users[u].role \in roles

-----------------------------------------------------------------------------
(* The Report model (src/unnamed/part_005) *)

\* The public code: 'RPT' + Date.now() in base 36 + five random base-36
\* characters.  A code sent by a client is [prefix |-> "CLIENT", ...].
PublicId(ts, sfx) == [prefix |-> "RPT", ts |-> ts, sfx |-> sfx]

ClientPublicId == [prefix |-> "CLIENT", ts |-> 0, sfx |-> 0]

\* the empty string sent as publicId: a STRING value that is not null
EmptyPublicId == [prefix |-> "", ts |-> 0, sfx |-> 0]

RandomSuffixes == {0}

\* The attribute defaults that Report.build applies to the values it is given.
ReportDefaults(submittedById, severity, urgency) ==
    [status            |-> "pending",
     severity          |-> severity,
     urgency           |-> urgency,
     isEmergency       |-> FALSE,
     verificationLevel |-> "unverified",
     visibility        |-> "public",
     submittedById     |-> submittedById,
     verifiedById      |-> None,
     verifiedAt        |-> None,
     rejectionReason   |-> NoText,
     publicId          |-> None,
     expiresAt         |-> None,
     additionalData    |-> None]

isCritical(row) == row.severity = "critical" \/ row.urgency = "emergency"

\* hooks.beforeCreate
beforeCreate(row, sfx) ==
    LET r1 == [row EXCEPT !.publicId = Some(PublicId(now, sfx)),
                          !.isEmergency = (row.severity = "critical"
                                           \/ row.urgency = "emergency")]
    IN  IF r1.status = "resolved"
        THEN [r1 EXCEPT !.expiresAt = Some(now + RetentionDays)]
        ELSE r1

\* hooks.beforeUpdate; `loaded' is the row as it was read (report.changed
\* compares with it).
beforeUpdate(loaded, row) ==
    LET r1 == IF row.status # loaded.status /\ row.status = "verified"
              THEN [row EXCEPT !.verifiedAt = Some(now)]
              ELSE row
    IN  IF row.status # loaded.status /\ row.status = "resolved"
        THEN [r1 EXCEPT !.expiresAt = Some(now + RetentionDays)]
        ELSE r1

\* The column constraints of the table: ENUM columns, allowNull: false,
\* foreign keys and the unique public_id index, checked when a row is
\* written.  `others' are the rows of the other reports.
RowAccepted(row, others) ==
    /\ row.status \in StatusEnum
    /\ row.severity \in Severities
    /\ row.urgency \in Urgencies
    /\ row.verificationLevel \in VerificationLevels
    /\ row.visibility \in Visibilities
    /\ row.submittedById \in Users
    /\ row.verifiedById \in Opt(Users)
    /\ IsSome(row.publicId)
    /\ \A o \in others : o.publicId # row.publicId

\* report.save() of a loaded instance: Sequelize writes the attributes that
\* differ from the values read (UPDATE ... SET <changed> WHERE id).
\* `current' is the row in the table at the time of the write.
ChangedFields(loaded, row) == {f \in DOMAIN row : row[f] # loaded[f]}

WriteChanged(current, loaded, row) ==
    [f \in DOMAIN current |->
        IF f \in ChangedFields(loaded, row) THEN row[f] ELSE current[f]]

ReportIds == 1 .. MaxReports

Exists(rid) == rid \in DOMAIN reports

OtherRows(rid) == {reports[o] : o \in DOMAIN reports \ {rid}}

\* A response: `data' is the set of reports whose rows a read request
\* (GET) returns in its body.
ReplyWith(op, actor, rid, code, message, data) ==
    [op |-> op, actor |-> actor, rid |-> rid, code |-> code,
     message |-> message, data |-> data]

Reply(op, actor, rid, code, message) ==
    ReplyWith(op, actor, rid, code, message, {})

-----------------------------------------------------------------------------
(* Request validation (express-validator chains) *)

\* validateReportCreation; the address rule reads a field the model leaves out.
validateReportCreation(body) ==
    /\ body.hazardType \in HazardTypes
    /\ body.severity \in Severities
    /\ (IsSome(body.urgency) => body.urgency[1] \in Urgencies)
    /\ StrLen(trim(body.description)) >= DescriptionMin
    /\ StrLen(trim(body.description)) <= DescriptionMax
    /\ body.lat >= 0 - LatMax /\ body.lat <= LatMax
    /\ body.lng >= 0 - LngMax /\ body.lng <= LngMax

\* validateReportUpdate
validateReportUpdate(body) ==
    /\ (IsSome(body.status) => body.status[1] \in StatusEnum)
    /\ (body.rejectionReason.present =>
            StrLen(trim(body.rejectionReason)) <= ReasonMax)

\* the chain on body('reason') of POST /:id/reject
validateReason(reason) ==
    /\ StrLen(trim(reason)) >= ReasonMin
    /\ StrLen(trim(reason)) <= ReasonMax

-----------------------------------------------------------------------------
(* What each handler assigns to the loaded instance before report.save() *)

\* POST /:id/verify, lines 746-749
verifyAssign(loaded, actor, level) ==
    [loaded EXCEPT !.status = "verified",
                   !.verificationLevel = level,
                   !.verifiedById = Some(actor),
                   !.verifiedAt = Some(now)]

\* POST /:id/reject, lines 807-810; the reason was trimmed by the validator
rejectAssign(loaded, actor, reason) ==
    [loaded EXCEPT !.status = "rejected",
                   !.rejectionReason = trim(reason),
                   !.verifiedById = Some(actor),
                   !.verifiedAt = Some(now)]

\* PUT /:id, lines 506-509
canUpdate(loaded, actor) ==
    \/ loaded.submittedById = actor
    \/ (canVerifyReports(actor) /\ loaded.status \in {"pending", "under_review"})

\* PUT /:id, lines 518-531: "Handle status changes"
putStatus(loaded, actor, body) ==
    LET status == body.status
        rr == IF body.rejectionReason.present
              THEN trim(body.rejectionReason) ELSE NoText
    IN  IF IsSome(status) /\ status[1] # loaded.status
        THEN IF status[1] \in {"verified", "rejected"} /\ canVerifyReports(actor)
             THEN [loaded EXCEPT
                      !.status = status[1],
                      !.verifiedById = Some(actor),
                      !.verifiedAt = Some(now),
                      !.rejectionReason =
                          IF status[1] = "rejected" /\ Truthy(rr) THEN rr ELSE @]
             ELSE IF loaded.submittedById = actor /\ status[1] = "under_review"
                  THEN [loaded EXCEPT !.status = status[1]]
                  ELSE loaded
        ELSE loaded

\* PUT /:id, lines 533-538: the remaining keys of the body, in the order of
\* the body, are assigned to the instance while the actor is its owner (as
\* the instance says at that point) or can verify reports.  `other' is the
\* sequence of <<key, value>> pairs of the body.
RECURSIVE putOther(_, _, _)
putOther(row, actor, other) ==
    IF other = << >>
    THEN row
    ELSE LET key == Head(other)[1]
             value == Head(other)[2]
             assigned ==
                 IF row.submittedById = actor \/ canVerifyReports(actor)
                 THEN [f \in DOMAIN row |-> IF f = key THEN value ELSE row[f]]
                 ELSE row
         IN  putOther(assigned, actor, Tail(other))

putAssign(loaded, actor, body) ==
    putOther(putStatus(loaded, actor, body), actor, body.other)

\* DELETE /:id, lines 601-603
deleteAssign(loaded) ==
    [loaded EXCEPT !.status = "deleted", !.visibility = "private"]

\* The table row after report.save(): hooks.beforeUpdate, then the UPDATE of
\* the changed attributes.
SavedRow(rid, loaded, row) ==
    WriteChanged(reports[rid], loaded, beforeUpdate(loaded, row))

SaveAccepted(rid, loaded, row) ==
    RowAccepted(SavedRow(rid, loaded, row), OtherRows(rid))

-----------------------------------------------------------------------------
(* The route handlers, each served as one step *)

Serve(reply) ==
    /\ response' = reply
    /\ nreq' = nreq + 1

\* A faulty variant of createValues: the whole body is handed to Report.create.
createValuesFromBody(actor, body) ==
    [ReportDefaults(actor, body.severity,
                    IF IsSome(body.urgency) THEN body.urgency[1] ELSE "routine")
        EXCEPT !.status = IF IsSome(body.status) THEN body.status[1] ELSE @,
               !.verifiedById = body.verifiedById,
               !.verifiedAt = body.verifiedAt]

\* POST /api/reports, lines 133-183: the values handed to Report.create.
\* Only the destructured fields of the body are used.
createValues(actor, body) ==
    ReportDefaults(actor, body.severity,
                   IF IsSome(body.urgency) THEN body.urgency[1] ELSE "routine")

\* JSON.parse(location) succeeds and the model's hasLatLng validator accepts
\* the parsed object (both coordinates truthy).
locationAccepted(body) ==
    /\ IsSome(body.location)
    /\ body.location[1].lat # 0
    /\ body.location[1].lng # 0

\* POST /api/reports
CreateReport(actor, body, sfx) ==
    /\ nreq < MaxRequests
    /\ Len(reports) < MaxReports
    /\ LET rid == Len(reports) + 1
           row == beforeCreate(createValues(actor, body), sfx)
       IN  IF ~validateReportCreation(body)
           THEN /\ Serve(Reply("create", actor, 0, 400, "Validation failed"))
                /\ UNCHANGED reports
           ELSE IF \/ ~locationAccepted(body)
                   \/ ~RowAccepted(row, {reports[o] : o \in DOMAIN reports})
                THEN /\ Serve(Reply("create", actor, 0, 500,
                                    "Server error during report submission"))
                     /\ UNCHANGED reports
                ELSE /\ reports' = Append(reports, row)
                     /\ Serve(Reply("create", actor, rid, 201,
                                    "Report submitted successfully"))
    /\ UNCHANGED <<users, now, sessions, transporter, maillog>>

\* report.save() and the response that follows it
SaveAndReply(op, actor, rid, row, message) ==
    IF SaveAccepted(rid, reports[rid], row)
    THEN /\ reports' = [reports EXCEPT ![rid] = SavedRow(rid, reports[rid], row)]
         /\ Serve(Reply(op, actor, rid, 200, message))
    ELSE /\ UNCHANGED reports
         /\ Serve(Reply(op, actor, rid, 500, "Server error"))

VerifierRoles == {"verifier", "analyst", "admin"}

\* A faulty variant of VerifyReport: the check of the current status is left out.
VerifyReportAnyStatus(actor, rid, level) ==
    /\ nreq < MaxRequests
    /\ IF ~requireRole(VerifierRoles, actor)
       THEN /\ Serve(Reply("verify", actor, rid, 403, "Access denied"))
            /\ UNCHANGED reports
       ELSE IF ~Exists(rid)
       THEN /\ Serve(Reply("verify", actor, rid, 404, "Report not found"))
            /\ UNCHANGED reports
       ELSE SaveAndReply("verify", actor, rid,
                verifyAssign(reports[rid], actor,
                    IF IsSome(level) THEN level[1] ELSE "expert_verified"),
                "Report verified successfully")
    /\ UNCHANGED <<users, now, sessions, transporter, maillog>>

\* POST /api/reports/:id/verify
VerifyReport(actor, rid, level) ==
    /\ nreq < MaxRequests
    /\ IF ~requireRole(VerifierRoles, actor)
       THEN /\ Serve(Reply("verify", actor, rid, 403, "Access denied"))
            /\ UNCHANGED reports
       ELSE IF ~Exists(rid)
       THEN /\ Serve(Reply("verify", actor, rid, 404, "Report not found"))
            /\ UNCHANGED reports
       ELSE IF reports[rid].status # "pending"
       THEN /\ Serve(Reply("verify", actor, rid, 400,
                           "Report is not pending verification"))
            /\ UNCHANGED reports
       ELSE SaveAndReply("verify", actor, rid,
                verifyAssign(reports[rid], actor,
                    IF IsSome(level) THEN level[1] ELSE "expert_verified"),
                "Report verified successfully")
    /\ UNCHANGED <<users, now, sessions, transporter, maillog>>

\* POST /api/reports/:id/reject
RejectReport(actor, rid, reason) ==
    /\ nreq < MaxRequests
    /\ IF ~requireRole(VerifierRoles, actor)
       THEN /\ Serve(Reply("reject", actor, rid, 403, "Access denied"))
            /\ UNCHANGED reports
       ELSE IF ~validateReason(reason)
       THEN /\ Serve(Reply("reject", actor, rid, 400, "Validation failed"))
            /\ UNCHANGED reports
       ELSE IF ~Exists(rid)
       THEN /\ Serve(Reply("reject", actor, rid, 404, "Report not found"))
            /\ UNCHANGED reports
       ELSE IF reports[rid].status # "pending"
       THEN /\ Serve(Reply("reject", actor, rid, 400,
                           "Report is not pending verification"))
            /\ UNCHANGED reports
       ELSE SaveAndReply("reject", actor, rid,
                rejectAssign(reports[rid], actor, reason),
                "Report rejected successfully")
    /\ UNCHANGED <<users, now, sessions, transporter, maillog>>

\* PUT /api/reports/:id
UpdateReport(actor, rid, body) ==
    /\ nreq < MaxRequests
    /\ IF ~validateReportUpdate(body)
       THEN /\ Serve(Reply("update", actor, rid, 400, "Validation failed"))
            /\ UNCHANGED reports
       ELSE IF ~Exists(rid)
       THEN /\ Serve(Reply("update", actor, rid, 404, "Report not found"))
            /\ UNCHANGED reports
       ELSE IF ~canUpdate(reports[rid], actor)
       THEN /\ Serve(Reply("update", actor, rid, 403, "Access denied"))
            /\ UNCHANGED reports
       ELSE SaveAndReply("update", actor, rid,
                putAssign(reports[rid], actor, body),
                "Report updated successfully")
    /\ UNCHANGED <<users, now, sessions, transporter, maillog>>

\* DELETE /api/reports/:id
DeleteReport(actor, rid) ==
    /\ nreq < MaxRequests
    /\ IF ~Exists(rid)
       THEN /\ Serve(Reply("delete", actor, rid, 404, "Report not found"))
            /\ UNCHANGED reports
       ELSE IF reports[rid].submittedById # actor /\ users[actor].role # "admin"
       THEN /\ Serve(Reply("delete", actor, rid, 403, "Access denied"))
            /\ UNCHANGED reports
       ELSE SaveAndReply("delete", actor, rid, deleteAssign(reports[rid]),
                "Report deleted successfully")
    /\ UNCHANGED <<users, now, sessions, transporter, maillog>>

\* The names the report routes file binds from 'sequelize': none.  Op and
\* sequelize are used by the handlers but never required, so evaluating
\* either throws a ReferenceError inside the handler's try block.
OpImported == FALSE

sequelizeImported == FALSE

\* GET /api/reports/:id, lines 445-448
canView(row, actor) ==
    \/ row.submittedById = actor
    \/ users[actor].role # "citizen"
    \/ row.visibility = "public"

\* GET /api/reports/:id
GetReport(actor, rid) ==
    /\ nreq < MaxRequests
    /\ IF ~OpImported
       THEN Serve(Reply("get", actor, rid, 500, "Server error"))
       ELSE IF ~Exists(rid)
       THEN Serve(Reply("get", actor, rid, 404, "Report not found"))
       ELSE IF ~canView(reports[rid], actor)
       THEN Serve(Reply("get", actor, rid, 403, "Access denied"))
       ELSE Serve(ReplyWith("get", actor, rid, 200, "", {rid}))
    /\ UNCHANGED <<reports, users, now, sessions, transporter, maillog>>

\* the query validators of GET /api/reports
validateListQuery(q) ==
    /\ (IsSome(q.status) => q.status[1] \in StatusEnum)
    /\ (IsSome(q.severity) => q.severity[1] \in Severities)

\* the where clause of GET /api/reports, lines 256-260
whereClause(q, row) ==
    /\ (IsSome(q.status) => row.status = q.status[1])
    /\ (IsSome(q.severity) => row.severity = q.severity[1])

\* GET /api/reports with the default page and limit; `search' and `geo'
\* say whether the query has a search text and a lat/lng pair.
ListReports(actor, q) ==
    /\ nreq < MaxRequests
    /\ IF ~validateListQuery(q)
       THEN Serve(Reply("list", actor, 0, 400, "Invalid query parameters"))
       ELSE IF (q.search /\ ~OpImported) \/ (q.geo /\ ~sequelizeImported)
       THEN Serve(Reply("list", actor, 0, 500, "Server error"))
       ELSE Serve(ReplyWith("list", actor, 0, 200, "",
                {r \in DOMAIN reports : whereClause(q, reports[r])}))
    /\ UNCHANGED <<reports, users, now, sessions, transporter, maillog>>

\* The clock advances between requests.
Tick ==
    /\ now < MaxNow
    /\ now' = now + 1
    /\ UNCHANGED <<reports, users, nreq, response, sessions, transporter, maillog>>

-----------------------------------------------------------------------------
(* The user administration routes (src/backend/routes/users.js).  The :id   *)
(* of the path is a text: `user' is the account whose UUID it spells (or    *)
(* "nobody"), `canonical' says whether it is spelled as the store returns   *)
(* it (lower case, hyphenated).  An email is a record: `name' is the        *)
(* address in lower case, `upper' says whether the text has upper-case      *)
(* letters, `prefix' lists the times t of the deleted_<t>_ prefixes put     *)
(* before it, `len' is the length of the address without the prefixes.      *)

Email(name, len) == [name |-> name, upper |-> FALSE, prefix |-> << >>, len |-> len]

EmailLen(e) == e.len + ScramblePrefixLen * Len(e.prefix)

\* `deleted_${Date.now()}_${user.email}`
scrambleEmail(e) == [e EXCEPT !.prefix = <<now>> \o @]

\* A faulty variant of UserRowAccepted: the email column has no unique index.
UserRowAcceptedNoIndex(row, others) ==
    EmailLen(row.email) <= EmailMax

\* The users table accepts a row: email is STRING(255) and unique.
UserRowAccepted(row, others) ==
    /\ EmailLen(row.email) <= EmailMax
    /\ \A o \in others : o.email # row.email

OtherUsers(u) == {users[o] : o \in DOMAIN users \ {u}}

\* User.findByPk(id): the uuid column compares the UUID the text spells,
\* whatever its letter case.
findByPk(id) == id.user

\* req.user.id === id: comparison of the two strings
sameId(actor, id) == id.canonical /\ id.user = actor

\* User.prototype.canManageUsers, applied by the canManageUsers middleware
canManageUsers(u) == users[u].role \in {"admin"}

\* the chain on body('reason') of PUT /:id/status
validateStatusReason(reason) ==
    reason.present =>
        /\ StrLen(trim(reason)) >= StatusReasonMin
        /\ StrLen(trim(reason)) <= StatusReasonMax

\* PUT /api/users/:id/role
UpdateUserRole(actor, id, role) ==
    /\ nreq < MaxRequests
    /\ IF ~canManageUsers(actor)
       THEN /\ Serve(Reply("role", actor, 0, 403, "Access denied"))
            /\ UNCHANGED users
       ELSE IF role \notin Roles
       THEN /\ Serve(Reply("role", actor, 0, 400, "Validation failed"))
            /\ UNCHANGED users
       ELSE IF findByPk(id) \notin DOMAIN users
       THEN /\ Serve(Reply("role", actor, 0, 404, "User not found"))
            /\ UNCHANGED users
       ELSE IF sameId(actor, id) /\ role # "admin"
       THEN /\ Serve(Reply("role", actor, 0, 400,
                           "Cannot change your own admin role"))
            /\ UNCHANGED users
       ELSE /\ users' = [users EXCEPT ![findByPk(id)].role = role]
            /\ Serve(Reply("role", actor, 0, 200,
                           "User role updated successfully"))
    /\ UNCHANGED <<reports, now, sessions, transporter, maillog>>

\* PUT /api/users/:id/status
UpdateUserStatus(actor, id, status, reason) ==
    /\ nreq < MaxRequests
    /\ IF ~canManageUsers(actor)
       THEN /\ Serve(Reply("status", actor, 0, 403, "Access denied"))
            /\ UNCHANGED users
       ELSE IF status \notin UserStatuses \/ ~validateStatusReason(reason)
       THEN /\ Serve(Reply("status", actor, 0, 400, "Validation failed"))
            /\ UNCHANGED users
       ELSE IF findByPk(id) \notin DOMAIN users
       THEN /\ Serve(Reply("status", actor, 0, 404, "User not found"))
            /\ UNCHANGED users
       ELSE IF sameId(actor, id) /\ status = "suspended"
       THEN /\ Serve(Reply("status", actor, 0, 400,
                           "Cannot suspend your own account"))
            /\ UNCHANGED users
       ELSE /\ users' = [users EXCEPT ![findByPk(id)].status = status]
            /\ Serve(Reply("status", actor, 0, 200,
                           "User status updated successfully"))
    /\ UNCHANGED <<reports, now, sessions, transporter, maillog>>

\* DELETE /api/users/:id
DeleteUser(actor, id) ==
    /\ nreq < MaxRequests
    /\ IF ~sameId(actor, id) /\ users[actor].role # "admin"
       THEN /\ Serve(Reply("deleteUser", actor, 0, 403, "Access denied"))
            /\ UNCHANGED users
       ELSE IF findByPk(id) \notin DOMAIN users
       THEN /\ Serve(Reply("deleteUser", actor, 0, 404, "User not found"))
            /\ UNCHANGED users
       ELSE IF sameId(actor, id) /\ users[actor].role = "admin"
       THEN /\ Serve(Reply("deleteUser", actor, 0, 400,
                           "Admin cannot delete their own account"))
            /\ UNCHANGED users
       ELSE LET u == findByPk(id)
                row == [users[u] EXCEPT !.status = "inactive",
                                        !.email = scrambleEmail(@)]
            IN  IF UserRowAccepted(row, OtherUsers(u))
                THEN /\ users' = [users EXCEPT ![u] = row]
                     /\ Serve(Reply("deleteUser", actor, 0, 200,
                                    "User account deleted successfully"))
                ELSE /\ Serve(Reply("deleteUser", actor, 0, 500,
                                    "Server error"))
                     /\ UNCHANGED users
    /\ UNCHANGED <<reports, now, sessions, transporter, maillog>>

-----------------------------------------------------------------------------
(* Request inputs *)

Dates == 0 .. MaxNow

\* A well-formed creation body for the given severity and urgency; the
\* last three fields are keys the handler does not destructure.
CreateBody(severity, urgency, status, verifiedById, verifiedAt) ==
    [hazardType   |-> "flood",
     severity     |-> severity,
     urgency      |-> urgency,
     description  |-> Text(1, DescriptionMin),
     lat          |-> 34,
     lng          |-> 0 - 118,
     location     |-> Some([lat |-> 34, lng |-> 0 - 118]),
     status       |-> status,
     verifiedById |-> verifiedById,
     verifiedAt   |-> verifiedAt]

PlainBody == CreateBody("high", None, None, None, None)

ValidCreateBodies ==
    {CreateBody(sev, urg, None, None, None) :
        sev \in {"low", "critical"}, urg \in Opt({"emergency"})}
    \cup {CreateBody("low", None, st, vb, va) :
            st \in Opt({"verified"}), vb \in Opt({"victor"}), va \in Opt({0})}

InvalidCreateBodies ==
    {[PlainBody EXCEPT !.hazardType = "volcano"],
     [PlainBody EXCEPT !.severity = "extreme"],
     [PlainBody EXCEPT !.urgency = Some("soon")],
     [PlainBody EXCEPT !.description = Text(4, DescriptionMin - 1)],
     [PlainBody EXCEPT !.description = Text(0, DescriptionMax + 1)],
     [PlainBody EXCEPT !.lat = LatMax + 1],
     [PlainBody EXCEPT !.lng = 0 - (LngMax + 1)],
     [PlainBody EXCEPT !.location = None],
     [PlainBody EXCEPT !.lat = 0, !.location = Some([lat |-> 0, lng |-> 10])]}

CreateBodies == ValidCreateBodies \cup InvalidCreateBodies

LevelInputs == Opt({"community_verified", "gold"})

ReasonInputs ==
    {NoText, Text(ReasonMin, 0), Text(1, ReasonMin - 1), Text(0, ReasonMin),
     Text(0, ReasonMax + 1)}

\* The attributes of the model a PUT body may name besides status and
\* rejectionReason, with the values the requests of the model send.
OtherKeys ==
    {"severity", "urgency", "isEmergency", "verificationLevel", "visibility",
     "submittedById", "verifiedById", "verifiedAt", "publicId", "expiresAt"}

OtherValues(k) ==
    CASE k = "severity"          -> Severities \cup {"extreme"}
      [] k = "urgency"           -> Urgencies
      [] k = "isEmergency"       -> BOOLEAN
      [] k = "verificationLevel" -> {"official_verified"}
      [] k = "visibility"        -> Visibilities
      [] k = "submittedById"     -> {"alice", "victor"}
      [] k = "verifiedById"      -> Opt({"alice"})
      [] k = "verifiedAt"        -> Opt(Dates)
      [] k = "publicId"          -> Opt({ClientPublicId, EmptyPublicId})
      [] k = "expiresAt"         -> Opt(Dates)

NoOther == << >>

OtherPairs == UNION {{<<k, v>> : v \in OtherValues(k)} : k \in OtherKeys}

KeysOf(other) == {other[i][1] : i \in DOMAIN other}

\* the bodies with at most n other keys, no key twice
RECURSIVE OtherUpdatesUpTo(_)
OtherUpdatesUpTo(n) ==
    IF n = 0
    THEN {NoOther}
    ELSE LET prev == OtherUpdatesUpTo(n - 1)
         IN  prev \cup {Append(o, p) : <<o, p>> \in
                          {<<o, p>> \in prev \X OtherPairs : p[1] \notin KeysOf(o)}}

StatusInputs == Opt(StatusEnum \cup {"deleted"})

PutReasonInputs == {NoText, Text(0, 0), Text(2, ReasonMin), Text(0, ReasonMax + 1)}

PutBody(status, reason, other) ==
    [status |-> status, rejectionReason |-> reason, other |-> other]

\* The bodies of the PUT requests: a status with or without a reason, one
\* or more other attributes, and a status together with another attribute.
PutBodies ==
    {PutBody(st, rr, NoOther) : st \in StatusInputs, rr \in PutReasonInputs}
    \cup {PutBody(None, NoText, o) : o \in OtherUpdatesUpTo(MaxOtherKeys)}
    \cup {PutBody(Some(st), NoText, <<<<"visibility", "restricted">>>>) :
            st \in {"verified", "under_review", "resolved"}}

Creators == {"alice", "victor"}

ListQueries ==
    [status : Opt({"pending", "deleted"}), severity : Opt({"low"}),
     search : BOOLEAN, geo : BOOLEAN]

-----------------------------------------------------------------------------
(* Requests in flight.  A handler awaits Report.findByPk and later          *)
(* report.save(); other requests run between the two.  A session holds the  *)
(* instance a handler loaded until it saves.                                *)

SessionIds == 1 .. MaxSessions

IdleSession ==
    [pc |-> "idle", op |-> "none", actor |-> "none", rid |-> 0,
     loaded |-> None, level |-> "none", reason |-> NoText, code |-> 0,
     body |-> None]

Finished(s, op, actor, rid, code) ==
    sessions' = [sessions EXCEPT ![s] =
        [IdleSession EXCEPT !.pc = "done", !.op = op, !.actor = actor,
                            !.rid = rid, !.code = code]]

\* POST /:id/verify up to the row returned by Report.findByPk
VerifyLoad(s, actor, rid, level) ==
    /\ sessions[s].pc = "idle"
    /\ IF ~requireRole(VerifierRoles, actor)
       THEN Finished(s, "verify", actor, rid, 403)
       ELSE IF ~Exists(rid)
       THEN Finished(s, "verify", actor, rid, 404)
       ELSE sessions' = [sessions EXCEPT ![s] =
                [IdleSession EXCEPT
                    !.pc = "loaded", !.op = "verify", !.actor = actor,
                    !.rid = rid, !.loaded = Some(reports[rid]),
                    !.level = IF IsSome(level) THEN level[1]
                              ELSE "expert_verified"]]
    /\ UNCHANGED <<reports, users, now, nreq, response, transporter, maillog>>

\* POST /:id/reject up to the row returned by Report.findByPk
RejectLoad(s, actor, rid, reason) ==
    /\ sessions[s].pc = "idle"
    /\ IF ~requireRole(VerifierRoles, actor)
       THEN Finished(s, "reject", actor, rid, 403)
       ELSE IF ~validateReason(reason)
       THEN Finished(s, "reject", actor, rid, 400)
       ELSE IF ~Exists(rid)
       THEN Finished(s, "reject", actor, rid, 404)
       ELSE sessions' = [sessions EXCEPT ![s] =
                [IdleSession EXCEPT
                    !.pc = "loaded", !.op = "reject", !.actor = actor,
                    !.rid = rid, !.loaded = Some(reports[rid]),
                    !.reason = reason]]
    /\ UNCHANGED <<reports, users, now, nreq, response, transporter, maillog>>

\* The rest of either handler: the pending check on the loaded instance,
\* the assignments, report.save() and the response.
CheckAndSave(s) ==
    /\ sessions[s].pc = "loaded"
    /\ LET ses == sessions[s]
           loaded == ses.loaded[1]
           row == IF ses.op = "verify"
                  THEN verifyAssign(loaded, ses.actor, ses.level)
                  ELSE rejectAssign(loaded, ses.actor, ses.reason)
       IN  IF loaded.status # "pending"
           THEN /\ Finished(s, ses.op, ses.actor, ses.rid, 400)
                /\ UNCHANGED reports
           ELSE IF SaveAccepted(ses.rid, loaded, row)
           THEN /\ reports' = [reports EXCEPT
                                  ![ses.rid] = SavedRow(ses.rid, loaded, row)]
                /\ Finished(s, ses.op, ses.actor, ses.rid, 200)
           ELSE /\ Finished(s, ses.op, ses.actor, ses.rid, 500)
                /\ UNCHANGED reports
    /\ UNCHANGED <<users, now, nreq, response, transporter, maillog>>

-----------------------------------------------------------------------------
(* Registration (src/Backend(Mongo)/routes/auth.js) and the welcome email   *)
(* (src/unnamed/part_004).  The handler awaits User.findOne and later       *)
(* user.save(); other requests run between the two.                         *)

\* express-validator normalizeEmail(): the address in lower case
normalizeEmail(e) == [e EXCEPT !.upper = FALSE]

\* String.prototype.toLowerCase()
toLowerCase(e) == [e EXCEPT !.upper = FALSE]

validateRegistration(body) ==
    /\ StrLen(trim(body.firstName)) >= NameMin
    /\ StrLen(trim(body.firstName)) <= NameMax
    /\ StrLen(trim(body.lastName)) >= NameMin
    /\ StrLen(trim(body.lastName)) <= NameMax
    /\ body.isEmail
    /\ body.passwordLen >= PasswordMin
    /\ (IsSome(body.role) => body.role[1] \in {"citizen", "verifier", "analyst"})

\* User.findOne({ email })
findOneByEmail(e) == {u \in DOMAIN users : users[u].email = e}

\* initializeTransporter(), called once when the module is loaded:
\* createTestAccount succeeds or throws.
InitializeTransporter(created) ==
    /\ transporter = "undefined"
    /\ transporter' = IF created THEN "ready" ELSE "null"
    /\ UNCHANGED <<reports, users, now, nreq, response, sessions, maillog>>

\* A faulty variant of sendWelcomeEmail: sendMail is awaited outside a try.
sendWelcomeEmailUncaught(delivery) ==
    IF transporter \in {"undefined", "null"}
    THEN [threw |-> FALSE, log |-> "skipped"]
    ELSE IF delivery = "rejected"
    THEN [threw |-> TRUE, log |-> "none"]
    ELSE [threw |-> FALSE, log |-> "sent"]

\* sendWelcomeEmail(email, firstName): whether the call throws and what it
\* logs; `delivery' is the outcome of transporter.sendMail.
sendWelcomeEmail(delivery) ==
    IF transporter \in {"undefined", "null"}
    THEN [threw |-> FALSE, log |-> "skipped"]
    ELSE IF delivery = "rejected"
    THEN [threw |-> FALSE, log |-> "failed"]
    ELSE [threw |-> FALSE, log |-> "sent"]

\* the identifier the store gives to the user a request creates
NewUserId(s) ==
    CASE s = 1 -> "new1"
      [] s = 2 -> "new2"
      [] OTHER -> "new3"

\* the response of a request in flight; `body' is kept with it
Answered(s, op, code, body) ==
    sessions' = [sessions EXCEPT ![s] =
        [IdleSession EXCEPT !.pc = "done", !.op = op, !.code = code,
                            !.body = body]]

\* POST /api/auth/register up to the result of User.findOne
RegisterCheck(s, body) ==
    /\ sessions[s].pc = "idle"
    /\ IF ~validateRegistration(body)
       THEN Answered(s, "register", 400, None)
       ELSE IF findOneByEmail(toLowerCase(normalizeEmail(body.email))) # {}
       THEN Answered(s, "register", 409, None)
       ELSE sessions' = [sessions EXCEPT ![s] =
                [IdleSession EXCEPT
                    !.pc = "checked", !.op = "register",
                    !.body = Some([body EXCEPT
                                      !.email = normalizeEmail(@)])]]
    /\ UNCHANGED <<reports, users, now, nreq, response, transporter, maillog>>

\* The rest of the handler: user.save(), the welcome email, the response.
RegisterSave(s, delivery) ==
    /\ sessions[s].pc = "checked"
    /\ LET body == sessions[s].body[1]
           row == [role   |-> IF IsSome(body.role) THEN body.role[1]
                              ELSE "citizen",
                   status |-> "active",
                   email  |-> body.email]
           welcome == sendWelcomeEmail(delivery)
       IN  IF ~UserRowAccepted(row, {users[o] : o \in DOMAIN users})
           THEN /\ Answered(s, "register", 500, Some(body))
                /\ UNCHANGED <<users, maillog>>
           ELSE /\ users' = users @@ (NewUserId(s) :> row)
                /\ maillog' = welcome.log
                /\ Answered(s, "register",
                            IF welcome.threw THEN 500 ELSE 201, Some(body))
    /\ UNCHANGED <<reports, now, nreq, response, transporter>>

-----------------------------------------------------------------------------
(* The specification of the requests served one at a time *)

Init ==
    /\ reports = << >>
    /\ users = [u \in Users |->
                   [role |-> InitialRole[u], status |-> "active",
                    email |-> InitialEmail[u]]]
    /\ now = 0
    /\ nreq = 0
    /\ response = Reply("none", "none", 0, 0, "")
    /\ sessions = [s \in SessionIds |-> IdleSession]
    /\ transporter = "undefined"
    /\ maillog = "none"

Next ==
    \/ \E a \in Creators, b \in CreateBodies, x \in RandomSuffixes :
          CreateReport(a, b, x)
    \/ \E a \in Users, r \in ReportIds, l \in LevelInputs : VerifyReport(a, r, l)
    \/ \E a \in Users, r \in ReportIds, t \in ReasonInputs : RejectReport(a, r, t)
    \/ \E a \in Users, r \in ReportIds, b \in PutBodies : UpdateReport(a, r, b)
    \/ \E a \in Users, r \in ReportIds : DeleteReport(a, r)
    \/ \E a \in Users, r \in ReportIds : GetReport(a, r)
    \/ \E a \in Users, q \in ListQueries : ListReports(a, q)
    \/ Tick

Spec == Init /\ [][Next]_vars

-----------------------------------------------------------------------------
(* The specification of verify and reject requests in flight together *)

NextRace ==
    \/ \E a \in {"alice"}, x \in RandomSuffixes : CreateReport(a, PlainBody, x)
    \/ \E s \in SessionIds, a \in Users, r \in ReportIds, l \in LevelInputs :
          VerifyLoad(s, a, r, l)
    \/ \E s \in SessionIds, a \in Users, r \in ReportIds, t \in ReasonInputs :
          RejectLoad(s, a, r, t)
    \/ \E s \in SessionIds : CheckAndSave(s)
    \/ Tick

SpecRace == Init /\ [][NextRace]_vars

-----------------------------------------------------------------------------
(* The specification of the review requests: creation, verify, reject,     *)
(* PUT with a status and a reason, delete.                                  *)

ReviewCreateBodies ==
    {CreateBody("low", None, st, vb, va) :
        st \in Opt({"verified"}), vb \in Opt({"victor"}), va \in Opt({0})}
    \cup InvalidCreateBodies

ReviewPutBodies ==
    {PutBody(st, rr, NoOther) :
        st \in StatusInputs, rr \in {NoText, Text(2, ReasonMin)}}

NextReview ==
    \/ \E a \in Creators, b \in ReviewCreateBodies, x \in RandomSuffixes :
          CreateReport(a, b, x)
    \/ \E a \in Users, r \in ReportIds, l \in LevelInputs : VerifyReport(a, r, l)
    \/ \E a \in Users, r \in ReportIds, t \in ReasonInputs : RejectReport(a, r, t)
    \/ \E a \in Users, r \in ReportIds, b \in ReviewPutBodies :
          UpdateReport(a, r, b)
    \/ \E a \in Users, r \in ReportIds : DeleteReport(a, r)
    \/ Tick

SpecReview == Init /\ [][NextReview]_vars

-----------------------------------------------------------------------------
(* The specification of the user administration requests *)

UserIdParams == [user : Users \cup {"nobody"}, canonical : BOOLEAN]

RoleInputs == Roles \cup {"root"}

UserStatusInputs == UserStatuses \cup {"deleted"}

StatusReasonInputs ==
    {NoText, Text(1, StatusReasonMin - 1), Text(0, StatusReasonMin)}

NextUsers ==
    \/ \E a \in Users, i \in UserIdParams, role \in RoleInputs :
          UpdateUserRole(a, i, role)
    \/ \E a \in Users, i \in UserIdParams, st \in UserStatusInputs,
          t \in StatusReasonInputs : UpdateUserStatus(a, i, st, t)
    \/ \E a \in Users, i \in UserIdParams : DeleteUser(a, i)
    \/ Tick

SpecUsers == Init /\ [][NextUsers]_vars

-----------------------------------------------------------------------------
(* The specification of registrations in flight and soft deletes *)

RegisterBody(name, upper) ==
    [firstName   |-> Text(1, NameMin),
     lastName    |-> Text(0, NameMin),
     email       |-> [name |-> name, upper |-> upper, prefix |-> << >>,
                      len |-> ScramblePrefixLen],
     isEmail     |-> TRUE,
     passwordLen |-> PasswordMin,
     role        |-> None]

RegisterBodies ==
    {RegisterBody(n, up) : n \in {"alice", "nina"}, up \in BOOLEAN}
    \cup {[RegisterBody("nina", FALSE) EXCEPT !.role = Some("verifier")],
          [RegisterBody("nina", FALSE) EXCEPT !.role = Some("admin")],
          [RegisterBody("nina", FALSE) EXCEPT !.isEmail = FALSE],
          [RegisterBody("nina", FALSE) EXCEPT !.passwordLen = PasswordMin - 1],
          [RegisterBody("nina", FALSE) EXCEPT !.firstName = Text(2, 0)],
          [RegisterBody("nina", FALSE) EXCEPT !.lastName = Text(0, NameMax + 1)]}

Deliveries == {"sent", "rejected"}

NextRegister ==
    \/ \E s \in SessionIds, b \in RegisterBodies : RegisterCheck(s, b)
    \/ \E s \in SessionIds, d \in Deliveries : RegisterSave(s, d)
    \/ \E created \in BOOLEAN : InitializeTransporter(created)
    \/ \E a \in {u \in DOMAIN users : users[u].email.name = "alice"} :
          DeleteUser(a, [user |-> a, canonical |-> TRUE])
    \/ Tick

SpecRegister == Init /\ [][NextRegister]_vars

-----------------------------------------------------------------------------
(* The email service of src/Backend(Mongo)/src/server.js.  A recipient is   *)
(* written as the outcome transporter.sendMail has for it; `details' says   *)
(* whether the alert details have the fields the template reads.  In this   *)
(* specification maillog is the bulk job: its inputs and its result.        *)

\* sendEmail(mailOptions): resolves to true or false, never rejects
sendEmail(delivery) ==
    IF transporter \in {"undefined", "null"}
    THEN FALSE
    ELSE delivery = "sent"

\* sendCriticalReportAlert(email, reportDetails), as Promise.allSettled
\* reports it: building the template throws when a field is missing.
sendCriticalReportAlert(details, delivery) ==
    IF ~details
    THEN [status |-> "rejected", value |-> FALSE]
    ELSE [status |-> "fulfilled", value |-> sendEmail(delivery)]

\* sendBulkEmergencyAlert(emailList, alertDetails)
sendBulkEmergencyAlert(emailList, details) ==
    LET results == [i \in DOMAIN emailList |->
                        sendCriticalReportAlert(details, emailList[i])]
    IN  [successful |->
             Cardinality({i \in DOMAIN results : results[i].status = "fulfilled"}),
         failed |->
             Cardinality({i \in DOMAIN results : results[i].status = "rejected"})]

SendBulkEmergencyAlert ==
    /\ maillog.result = None
    /\ maillog' = [maillog EXCEPT
                      !.result = Some(sendBulkEmergencyAlert(maillog.emailList,
                                                             maillog.details))]
    /\ UNCHANGED <<reports, users, now, nreq, response, sessions, transporter>>

RECURSIVE EmailListsUpTo(_)
EmailListsUpTo(n) ==
    IF n = 0
    THEN {<< >>}
    ELSE LET prev == EmailListsUpTo(n - 1)
         IN  prev \cup {Append(l, d) : l \in prev, d \in Deliveries}

InitBulk ==
    /\ reports = << >>
    /\ users = [u \in Users |->
                   [role |-> InitialRole[u], status |-> "active",
                    email |-> InitialEmail[u]]]
    /\ now = 0
    /\ nreq = 0
    /\ response = Reply("none", "none", 0, 0, "")
    /\ sessions = [s \in SessionIds |-> IdleSession]
    /\ transporter \in {"null", "ready"}
    /\ maillog \in [emailList : EmailListsUpTo(MaxRecipients),
                     details : BOOLEAN, result : {None}]

NextBulk == SendBulkEmergencyAlert

SpecBulk == InitBulk /\ [][NextBulk]_vars

-----------------------------------------------------------------------------
(* GET /api/analytics/exports/csv of src/backend/routes/analytics.js.  A   *)
(* text is a sequence of characters: "Q" is the double quote, "NL" the line *)
(* feed, "," the comma and "a" any other character.  In this specification  *)
(* reports holds the columns the export reads.                              *)

Quote == "Q"
LineFeed == "NL"
Comma == ","

\* description.replace(/"/g, '""')
RECURSIVE escapeQuotes(_)
escapeQuotes(text) ==
    IF text = << >>
    THEN << >>
    ELSE (IF Head(text) = Quote THEN <<Quote, Quote>> ELSE <<Head(text)>>)
             \o escapeQuotes(Tail(text))

\* the template literal of one data row
csvRow(report) ==
    LET field(text) == <<Quote>> \o text \o <<Quote>>
    IN  field(<<"a">>) \o <<Comma>>                          \* id
        \o field(<<"a">>) \o <<Comma>>                       \* publicId
        \o field(<<"a">>) \o <<Comma>>                       \* hazardType
        \o field(<<"a">>) \o <<Comma>>                       \* severity
        \o field(<<"a">>) \o <<Comma>>                       \* status
        \o field(escapeQuotes(report.description)) \o <<Comma>>
        \o field(<<"a", Comma, "a", "a">>) \o <<Comma>>      \* "lat, lng"
        \o field(report.firstName \o <<"a">> \o <<"a">>) \o <<Comma>>
        \o field(<<"a">>) \o <<Comma>>                       \* createdAt
        \o field(<< >>)                                      \* verifiedAt || ''
        \o <<LineFeed>>

\* the header line
csvHeader ==
    <<"a", Comma, "a", Comma, "a", Comma, "a", Comma, "a", Comma,
      "a", Comma, "a", Comma, "a", Comma, "a", Comma, "a", LineFeed>>

\* whereClause of the export: a range only when both ends are given
exportWhere(query, report) ==
    IF IsSome(query.dateFrom) /\ IsSome(query.dateTo)
    THEN report.createdAt >= query.dateFrom[1]
             /\ report.createdAt <= query.dateTo[1]
    ELSE TRUE

RECURSIVE csvRows(_)
csvRows(rows) ==
    IF rows = << >>
    THEN << >>
    ELSE csvRow(Head(rows)) \o csvRows(Tail(rows))

\* case 'reports'
exportReports(query) ==
    csvHeader \o csvRows(SelectSeq(reports, LAMBDA r : exportWhere(query, r)))

canAccessAnalytics(u) == users[u].role \in {"analyst", "admin"}

ExportTypes == {"reports", "summary"}

validateExportQuery(query) == query.type = "reports"

ExportCsv(actor, query) ==
    /\ response' =
          IF ~canAccessAnalytics(actor)
          THEN ReplyWith("csv", actor, query, 403, "Access denied", << >>)
          ELSE IF ~validateExportQuery(query)
          THEN ReplyWith("csv", actor, query, 400, "Invalid parameters", << >>)
          ELSE ReplyWith("csv", actor, query, 200, "", exportReports(query))
    /\ UNCHANGED <<reports, users, now, nreq, sessions, transporter, maillog>>

MaxExportRows == 2

ExportDescriptions == {<<"a">>, <<Quote>>, <<LineFeed>>}
ExportFirstNames == {<<"a">>, <<Quote>>}

ExportRow ==
    [description : ExportDescriptions, firstName : ExportFirstNames,
     createdAt : 0..MaxNow]

RECURSIVE ExportRowsUpTo(_)
ExportRowsUpTo(n) ==
    IF n = 0
    THEN {<< >>}
    ELSE LET prev == ExportRowsUpTo(n - 1)
         IN  prev \cup {Append(l, r) : l \in prev, r \in ExportRow}

ExportQueries ==
    [type : ExportTypes, dateFrom : Opt(0..MaxNow), dateTo : Opt(0..MaxNow)]

InitExport ==
    /\ reports \in ExportRowsUpTo(MaxExportRows)
    /\ users = [u \in Users |->
                   [role |-> InitialRole[u], status |-> "active",
                    email |-> InitialEmail[u]]]
    /\ now = 0
    /\ nreq = 0
    /\ response = Reply("none", "none", 0, 0, "")
    /\ sessions = [s \in SessionIds |-> IdleSession]
    /\ transporter = "undefined"
    /\ maillog = "none"

NextExport == \E a \in Users, q \in ExportQueries : ExportCsv(a, q)

SpecExport == InitExport /\ [][NextExport]_vars

-----------------------------------------------------------------------------
(* POST /api/reports/:id/verify of the Mongoose report routes               *)
(* (src/unnamed/part_000), as a function of the actor and the stored        *)
(* report: the answer and the report after the request.                     *)

MongooseVerifierRoles == {"verifier", "admin"}

verifyMongoose(actor, rid) ==
    IF ~requireRole(MongooseVerifierRoles, actor)
    THEN [code |-> 403, report |-> IF Exists(rid) THEN Some(reports[rid]) ELSE None]
    ELSE IF ~Exists(rid)
    THEN [code |-> 404, report |-> None]
    ELSE IF reports[rid].status # "pending"
    THEN [code |-> 400, report |-> Some(reports[rid])]
    ELSE [code |-> 200,
          report |-> Some([reports[rid] EXCEPT !.status = "verified",
                                               !.verifiedById = Some(actor),
                                               !.verifiedAt = Some(now)])]

-----------------------------------------------------------------------------
(* PUT /api/users/:id/role with requests in flight together: the handler    *)
(* runs canManageUsers on the actor as the request arrives and awaits       *)
(* User.findByPk(id) afterwards; other requests run in between.             *)

\* PUT /:id/role up to the await of User.findByPk
RoleAuthorise(s, actor, id, role) ==
    /\ sessions[s].pc = "idle"
    /\ IF ~canManageUsers(actor)
       THEN Finished(s, "role", actor, 0, 403)
       ELSE IF role \notin Roles
       THEN Finished(s, "role", actor, 0, 400)
       ELSE sessions' = [sessions EXCEPT ![s] =
                [IdleSession EXCEPT
                    !.pc = "authorised", !.op = "role", !.actor = actor,
                    !.body = Some([id |-> id, role |-> role])]]
    /\ UNCHANGED <<reports, users, now, nreq, response, transporter, maillog>>

\* The rest of the handler: the row, the check on the actor's own id,
\* user.save() and the response.
RoleSave(s) ==
    /\ sessions[s].pc = "authorised"
    /\ LET ses == sessions[s]
           id == ses.body[1].id
           role == ses.body[1].role
       IN  IF findByPk(id) \notin DOMAIN users
           THEN /\ Finished(s, "role", ses.actor, 0, 404)
                /\ UNCHANGED users
           ELSE IF sameId(ses.actor, id) /\ role # "admin"
           THEN /\ Finished(s, "role", ses.actor, 0, 400)
                /\ UNCHANGED users
           ELSE /\ users' = [users EXCEPT ![findByPk(id)].role = role]
                /\ Finished(s, "role", ses.actor, 0, 200)
    /\ UNCHANGED <<reports, now, nreq, response, transporter, maillog>>

\* the requests of this specification name users by their stored id
StoredId(u) == [user |-> u, canonical |-> TRUE]

NextAdmins ==
    \/ \E a \in Users : UpdateUserRole(a, StoredId("ana"), "admin")
    \/ \E a \in Users :
          UpdateUserStatus(a, StoredId("alice"), "suspended",
                           Text(0, StatusReasonMin))
    \/ \E a \in Users : DeleteUser(a, StoredId("alice"))
    \/ \E s \in SessionIds, a \in {"alice", "ana", "adam"},
          u \in {"ana", "adam", "nobody"}, role \in {"citizen", "root"} :
          RoleAuthorise(s, a, StoredId(u), role)
    \/ \E s \in SessionIds : RoleSave(s)

SpecAdmins == Init /\ [][NextAdmins]_vars

-----------------------------------------------------------------------------
(* GET /api/reports/public/:publicId: no auth middleware runs, so the       *)
(* request has no actor.  The body of the answer is the record the handler  *)
(* serialises: its keys are the attributes the reader receives.             *)

\* A faulty variant of toPublicJSON: the values as this.get() returns them.
toJSONAllValues(row) == row

\* Report.prototype.toPublicJSON
toPublicJSON(row) ==
    IF row.visibility = "public"
    THEN [f \in DOMAIN row \ {"submittedById", "verifiedById", "additionalData"}
              |-> row[f]]
    ELSE row

\* Report.findOne({ where: { publicId, visibility: 'public',
\*                           status: ['verified', 'resolved'] } })
findOnePublic(publicId) ==
    {r \in DOMAIN reports :
        /\ reports[r].publicId = Some(publicId)
        /\ reports[r].visibility = "public"
        /\ reports[r].status \in {"verified", "resolved"}}

GetPublicReport(publicId) ==
    /\ nreq < MaxRequests
    /\ IF findOnePublic(publicId) = {}
       THEN Serve(ReplyWith("public", "anonymous", 0, 404,
                            "Public report not found", {}))
       ELSE LET r == CHOOSE r \in findOnePublic(publicId) : TRUE
            IN  Serve(ReplyWith("public", "anonymous", 0, 200, "",
                                {toPublicJSON(reports[r])}))
    /\ UNCHANGED <<reports, users, now, sessions, transporter, maillog>>

PublicIdParams ==
    {PublicId(t, x) : t \in Dates, x \in RandomSuffixes} \cup {ClientPublicId}

VisibilityBodies ==
    {PutBody(None, NoText, <<<<"visibility", v>>>>) : v \in Visibilities}
    \cup {PutBody(None, NoText, <<<<"publicId", Some(ClientPublicId)>>>>)}

NextPublic ==
    \/ \E x \in RandomSuffixes : CreateReport("alice", PlainBody, x)
    \/ \E r \in ReportIds : VerifyReport("victor", r, None)
    \/ \E r \in ReportIds : RejectReport("victor", r, Text(0, ReasonMin))
    \/ \E r \in ReportIds, b \in VisibilityBodies : UpdateReport("alice", r, b)
    \/ \E r \in ReportIds : DeleteReport("alice", r)
    \/ \E p \in PublicIdParams : GetPublicReport(p)
    \/ Tick

SpecPublic == Init /\ [][NextPublic]_vars

-----------------------------------------------------------------------------
(* Claims *)

NotPendingMessage == "Report is not pending verification"

\* C1: every report stored by POST /api/reports has status pending and no
\* verifier and no verification time, whatever else the body carried.
C1_CreatedPending ==
    [][Len(reports') = Len(reports) + 1 =>
          /\ response'.op = "create"
          /\ response'.code = 201
          /\ reports'[Len(reports')].status = "pending"
          /\ reports'[Len(reports')].verifiedById = None
          /\ reports'[Len(reports')].verifiedAt = None]_vars

\* a creation answered 201 whose row is stored
C1_Witness ==
    /\ response.op = "create"
    /\ response.code = 201
    /\ Exists(response.rid)
    /\ reports[response.rid].status = "pending"
    /\ reports[response.rid].verifiedById = None

\* C2: every stored report has isEmergency = (severity = critical or
\* urgency = emergency).
C2_EmergencyFlag ==
    \A r \in DOMAIN reports :
        reports[r].isEmergency =
            (reports[r].severity = "critical" \/ reports[r].urgency = "emergency")

StatusUnchanged(r) == Exists(r) => reports'[r].status = reports[r].status

\* C3: a report goes from pending to verified only in a request of a
\* verifier, analyst or admin, and a citizen's POST /:id/verify or
\* PUT /:id with status = verified fails and leaves the status as it was.
C3_OnlyVerifierRolesVerify ==
    [][/\ \A r \in DOMAIN reports :
            (reports[r].status = "pending" /\ reports'[r].status = "verified")
                => users[response'.actor].role \in VerifierRoles
       /\ \A a \in Users, r \in ReportIds :
            users[a].role = "citizen" =>
                /\ \A l \in LevelInputs :
                      VerifyReport(a, r, l) =>
                          (response'.code >= 400 /\ StatusUnchanged(r))
                /\ \A b \in PutBodies :
                      (b.status = Some("verified") /\ UpdateReport(a, r, b)) =>
                          (response'.code >= 400 /\ StatusUnchanged(r))]_vars

\* C4: a rejection without a reason of at least ReasonMin characters fails
\* and leaves the status as it was, by POST /:id/reject and by PUT /:id
\* with status = rejected, for the actors who may reject.
C4_RejectNeedsReason ==
    [][\A a \in Users, r \in ReportIds :
          canVerifyReports(a) =>
          /\ \A t \in ReasonInputs :
                (StrLen(trim(t)) < ReasonMin /\ RejectReport(a, r, t)) =>
                    (response'.code >= 400 /\ StatusUnchanged(r))
          /\ \A b \in PutBodies :
                (/\ b.status = Some("rejected")
                 /\ StrLen(trim(b.rejectionReason)) < ReasonMin
                 /\ UpdateReport(a, r, b)) =>
                    (response'.code >= 400 /\ StatusUnchanged(r))]_vars

\* C5: POST /:id/verify and POST /:id/reject on a report that is not
\* pending never succeed and write nothing; a request that passes the role
\* gate and, for reject, the validation of the reason is answered 400
\* "Report is not pending verification".
C5_NotPendingConflict ==
    [][LET a == response'.actor
           r == response'.rid
       IN  (/\ nreq' = nreq + 1
            /\ response'.op \in {"verify", "reject"}
            /\ Exists(r)
            /\ reports[r].status # "pending") =>
               /\ reports' = reports
               /\ response'.code >= 400
               /\ (response'.op = "verify" /\ requireRole(VerifierRoles, a)) =>
                     /\ response'.code = 400
                     /\ response'.message = NotPendingMessage
               /\ \A t \in ReasonInputs :
                     (/\ RejectReport(a, r, t)
                      /\ requireRole(VerifierRoles, a)
                      /\ validateReason(t)) =>
                         /\ response'.code = 400
                         /\ response'.message = NotPendingMessage]_vars

\* a verify of an already verified report answered with the conflict
C5_Witness ==
    /\ response.op = "verify"
    /\ response.code = 400
    /\ response.message = NotPendingMessage
    /\ Exists(response.rid)
    /\ reports[response.rid].status = "verified"

\* C6: of the verify and reject requests in flight on one report at most
\* one is answered with success.
C6_OneTransitionWins ==
    \A r \in ReportIds :
        Cardinality({s \in SessionIds :
            /\ sessions[s].pc = "done"
            /\ sessions[s].rid = r
            /\ sessions[s].op \in {"verify", "reject"}
            /\ sessions[s].code = 200}) <= 1

LifecycleEdges ==
    {<<"pending", "under_review">>, <<"pending", "verified">>,
     <<"pending", "rejected">>, <<"verified", "resolved">>}

\* C7: every change of a report's status is an edge of the lifecycle, or
\* the soft delete.
C7_LifecycleEdges ==
    [][\A r \in DOMAIN reports :
          reports'[r].status # reports[r].status =>
              \/ <<reports[r].status, reports'[r].status>> \in LifecycleEdges
              \/ reports'[r].status = "deleted"]_vars

\* C8: verifiedAt and verifiedById of a report are both null or both set.
C8_VerifierAndTimeTogether ==
    \A r \in DOMAIN reports :
        (reports[r].verifiedAt = None) <=> (reports[r].verifiedById = None)

\* C9: a report has a rejection reason if and only if its status is
\* rejected.
C9_ReasonIffRejected ==
    \A r \in DOMAIN reports :
        Truthy(reports[r].rejectionReason) <=> (reports[r].status = "rejected")

\* C10: the public code of a report never changes after its creation.
C10_PublicIdImmutable ==
    [][\A r \in DOMAIN reports :
          reports'[r].publicId = reports[r].publicId]_vars

\* C11: every stored report has a non-empty public code and no two stored
\* reports have the same public code.
C11_PublicCodes ==
    /\ \A r \in DOMAIN reports :
          /\ IsSome(reports[r].publicId)
          /\ reports[r].publicId[1].prefix # ""
    /\ \A r, q \in DOMAIN reports :
          r # q => reports[r].publicId # reports[q].publicId

\* C12: expiresAt of a report is written only by a transition of its status
\* into resolved, to now + RetentionDays; a report is created without it.
C12_ExpiresOnlyOnResolve ==
    [][/\ \A r \in DOMAIN reports :
            reports'[r].expiresAt # reports[r].expiresAt =>
                /\ reports[r].status # "resolved"
                /\ reports'[r].status = "resolved"
                /\ reports'[r].expiresAt = Some(now + RetentionDays)
       /\ Len(reports') = Len(reports) + 1 =>
            reports'[Len(reports')].expiresAt = None]_vars

\* C13: PUT /:id with status = resolved, sent for a verified report by its
\* owner or by an actor who can verify reports, moves the report to
\* resolved and sets expiresAt to now + RetentionDays.
C13_VerifiedToResolved ==
    [][\A a \in Users, r \in ReportIds, b \in PutBodies :
          (/\ Exists(r)
           /\ reports[r].status = "verified"
           /\ (reports[r].submittedById = a \/ canVerifyReports(a))
           /\ b = PutBody(Some("resolved"), NoText, NoOther)
           /\ UpdateReport(a, r, b)) =>
              /\ reports'[r].status = "resolved"
              /\ reports'[r].expiresAt = Some(now + RetentionDays)]_vars

\* C14: GET /:id of a stored report returns the report exactly when the
\* actor owns it, or is not a citizen, or the report is public; a citizen
\* who is not the owner of a report that is not public is answered 403
\* without report data.
C14_ViewPolicy ==
    [][\A a \in Users, r \in ReportIds :
          (Exists(r) /\ GetReport(a, r)) =>
              LET permitted == \/ reports[r].submittedById = a
                               \/ users[a].role # "citizen"
                               \/ reports[r].visibility = "public"
              IN  /\ permitted =>
                      (response'.code = 200 /\ response'.data = {r})
                  /\ ~permitted =>
                      (response'.code = 403 /\ response'.data = {})]_vars

\* C15: a list query answered with success returns, to a citizen, the
\* matching reports the citizen owns or that are public, and to any other
\* role all matching reports.
C15_ListVisibility ==
    [][\A a \in Users, q \in ListQueries :
          (ListReports(a, q) /\ response'.code = 200) =>
              response'.data =
                  {r \in DOMAIN reports :
                      /\ whereClause(q, reports[r])
                      /\ \/ users[a].role # "citizen"
                         \/ reports[r].submittedById = a
                         \/ reports[r].visibility = "public"}]_vars

\* the attributes of a row other than those in `except' are left as they were
SameExcept(r, except) ==
    \A f \in DOMAIN reports[r] \ except : reports'[r][f] = reports[r][f]

\* C16: a PUT /:id that names only non-status attributes is let through
\* exactly when the actor owns the report and the report is pending or
\* under review, or the actor can verify reports; otherwise it is answered
\* 403 and the report is left as it was.
C16_EditPolicy ==
    [][\A a \in Users, r \in ReportIds, b \in PutBodies :
          (/\ Exists(r)
           /\ b.status = None
           /\ b.other # NoOther
           /\ UpdateReport(a, r, b)) =>
              LET permitted ==
                      \/ /\ reports[r].submittedById = a
                         /\ reports[r].status \in {"pending", "under_review"}
                      \/ canVerifyReports(a)
              IN  /\ permitted => response'.code # 403
                  /\ ~permitted =>
                      (response'.code = 403 /\ reports' = reports)]_vars

\* C17: the status of a report becomes under_review only in a request of
\* its owner and only from pending, and a PUT /:id that names only the
\* status changes no other attribute with it.
C17_UnderReviewByOwnerFromPending ==
    [][\A r \in DOMAIN reports :
          (reports[r].status # "under_review"
              /\ reports'[r].status = "under_review") =>
                /\ response'.actor = reports[r].submittedById
                /\ reports[r].status = "pending"
                /\ \A a \in Users, t \in PutReasonInputs :
                      UpdateReport(a, r,
                            PutBody(Some("under_review"), t, NoOther)) =>
                          SameExcept(r, {"status"})]_vars

\* C18: DELETE /:id by an actor who neither owns the report nor is an admin
\* is answered 403 and leaves the report as it was; by the owner or an
\* admin it succeeds, from any status, and the stored report then has
\* status deleted and visibility private.
C18_SoftDelete ==
    [][\A a \in Users, r \in ReportIds :
          (Exists(r) /\ DeleteReport(a, r)) =>
              IF reports[r].submittedById = a \/ users[a].role = "admin"
              THEN /\ response'.code = 200
                   /\ reports'[r].status = "deleted"
                   /\ reports'[r].visibility = "private"
              ELSE /\ response'.code = 403
                   /\ reports' = reports]_vars

\* the actor may set this status on this report under the access policy
StatusPermitted(a, r, status) ==
    CASE status \in {"verified", "rejected"} -> canVerifyReports(a)
      [] status = "under_review" -> reports[r].submittedById = a
      [] status = "resolved" ->
            reports[r].submittedById = a \/ canVerifyReports(a)
      [] OTHER -> FALSE

\* C19: a PUT /:id asking for a status the access policy does not let the
\* actor set is answered 403 and no attribute of the report changes.
C19_DeniedNotDropped ==
    [][\A a \in Users, r \in ReportIds, b \in PutBodies :
          (/\ Exists(r)
           /\ IsSome(b.status)
           /\ b.status[1] \in StatusEnum
           /\ b.status[1] # reports[r].status
           /\ ~StatusPermitted(a, r, b.status[1])
           /\ UpdateReport(a, r, b)) =>
              (response'.code = 403 /\ reports' = reports)]_vars

\* C20: a request of an admin on the admin's own account that asks
\* PUT /:id/role for a role other than admin, PUT /:id/status for
\* suspended, or DELETE /:id, is refused and leaves the users as they were.
C20_AdminSelfProtection ==
    [][\A a \in Users, i \in UserIdParams :
          (users[a].role = "admin" /\ findByPk(i) = a) =>
              /\ \A role \in RoleInputs \ {"admin"} :
                    UpdateUserRole(a, i, role) =>
                        (response'.code >= 400 /\ users' = users)
              /\ \A t \in StatusReasonInputs :
                    UpdateUserStatus(a, i, "suspended", t) =>
                        (response'.code >= 400 /\ users' = users)
              /\ DeleteUser(a, i) =>
                    (response'.code >= 400 /\ users' = users)]_vars

\* C21: no user operation removes a user record, and DELETE /:id sent by
\* the user themself (not an admin) or by an admin for another user leaves
\* the record with status inactive and a prefixed email.
C21_NeverHardDeleted ==
    [][/\ DOMAIN users \subseteq DOMAIN users'
       /\ \A a \in DOMAIN users, i \in UserIdParams :
            (/\ findByPk(i) \in DOMAIN users
             /\ IF users[a].role = "admin" THEN findByPk(i) # a
                                           ELSE sameId(a, i)
             /\ DeleteUser(a, i)) =>
                /\ users'[findByPk(i)].status = "inactive"
                /\ users'[findByPk(i)].email.prefix # << >>]_vars

C23_WelcomeFailureSwallowed ==
    [][\A s \in SessionIds, d \in Deliveries :
          RegisterSave(s, d) =>
              LET body == sessions[s].body[1]
                  stored == NewUserId(s) \in DOMAIN users'
              IN  /\ stored <=> (findOneByEmail(body.email) = {})
                  /\ stored => /\ sessions'[s].code = 201
                               /\ users'[NewUserId(s)].email = body.email
                  /\ ~stored => sessions'[s].code = 500]_vars

\* a registration answered 201 whose welcome email failed
C23_Witness ==
    /\ maillog = "failed"
    /\ \E s \in SessionIds :
          /\ sessions[s].pc = "done"
          /\ sessions[s].op = "register"
          /\ sessions[s].code = 201
          /\ NewUserId(s) \in DOMAIN users

\* the recipients of the bulk job whose email was delivered
DeliveredTo ==
    {i \in DOMAIN maillog.emailList :
        transporter = "ready" /\ maillog.details
            /\ maillog.emailList[i] = "sent"}

\* C24: the result of sendBulkEmergencyAlert counts the delivered emails as
\* successful and the others as failed, and the two add up to the number
\* of recipients.
C24_BulkCounts ==
    IsSome(maillog.result) =>
        LET n == Len(maillog.emailList)
            result == maillog.result[1]
        IN  /\ result.successful = Cardinality(DeliveredTo)
            /\ result.failed = n - Cardinality(DeliveredTo)
            /\ result.successful + result.failed = n

\* the number of line feeds of a text
RECURSIVE LineCount(_)
LineCount(text) ==
    IF text = << >>
    THEN 0
    ELSE (IF Head(text) = LineFeed THEN 1 ELSE 0) + LineCount(Tail(text))

\* the reports a supplied date range keeps
InRange(query) ==
    SelectSeq(reports,
              LAMBDA r : /\ IsSome(query.dateFrom) => r.createdAt >= query.dateFrom[1]
                         /\ IsSome(query.dateTo) => r.createdAt <= query.dateTo[1])

\* C25: a CSV export of type reports has one header line and one line per
\* report of the supplied date range, whatever the reports contain.
C25_CsvLines ==
    (response.op = "csv" /\ response.code = 200) =>
        LineCount(response.data) = Len(InRange(response.rid)) + 1

\* C26: POST /:id/verify of the relational backend answers as the same
\* request does in the document-store backend (accepted with 200 or denied
\* with the same code), and leaves the same status, verifiedById and
\* verifiedAt on the report.
C26_VerifyEquivalent ==
    [][\A a \in Users, r \in ReportIds, l \in LevelInputs :
          VerifyReport(a, r, l) =>
              LET m == verifyMongoose(a, r)
              IN  /\ response'.code = m.code
                  /\ Exists(r) =>
                        /\ reports'[r].status = m.report[1].status
                        /\ reports'[r].verifiedById = m.report[1].verifiedById
                        /\ reports'[r].verifiedAt = m.report[1].verifiedAt]_vars

\* C27: after verify and reject requests that were in flight together, a
\* report holds the outcome of one of them: a verified report has no
\* rejection reason, a rejected report has no verification level, and a
\* pending report has no verifier.
C27_SerialOutcome ==
    \A r \in DOMAIN reports :
        /\ reports[r].status = "verified" =>
               reports[r].rejectionReason = NoText
        /\ reports[r].status = "rejected" =>
               reports[r].verificationLevel = "unverified"
        /\ reports[r].status = "pending" =>
               reports[r].verifiedById = None

\* C28: whatever role updates, status updates and deletions are served, one
\* after the other or in flight together, some user has the role admin.
C28_AdminRemains ==
    \E u \in DOMAIN users : users[u].role = "admin"

\* C29: every stored report has a status of the declared set, and the row
\* a permitted DELETE /:id hands to report.save() has one too.
C29_StatusInEnum ==
    [][/\ \A r \in DOMAIN reports' : reports'[r].status \in StatusEnum
       /\ \A a \in Users, r \in DOMAIN reports :
             (/\ reports[r].submittedById = a \/ users[a].role = "admin"
              /\ DeleteReport(a, r)) =>
                 /\ deleteAssign(reports[r]).status \in StatusEnum
                 /\ response'.code = 200]_vars

====
